---- MODULE Spec2Model ----
(***************************************************************************)
(* Message framing (HDF, PCF), the sizeof codec context and the channel    *)
(* Public-Key Store of the streams repository, as state machines.          *)
(*                                                                         *)
(*  SpecHDF    : a sender builds an HDF, wraps it, the transport delivers  *)
(*               the (possibly damaged) bytes, a receiver unwraps them.    *)
(*  SpecSizeof : skip commands on a sizeof::Context.                       *)
(*  SpecStore  : operations of PublicKeyMap.                               *)
(*  SpecPCF    : construction, sizeof, wrap and unwrap of a PCF.           *)
(***************************************************************************)
EXTENDS Integers, Sequences, FiniteSets, TLC

VARIABLES
    pc,      \* HDF pipeline position: "build", "wire", "done"
    hdf,     \* the sender's HDF value, NoHDF after a failed consuming setter
    bres,    \* result of the last builder call on the sender side
    wctx,    \* wrap::Context after HDF::wrap: output stream, sponge transcript, result
    buf,     \* the input stream handed to HDF::unwrap
    edits,   \* number of transport edits applied to buf
    rx,      \* the HDF the receiver unwraps into
    rx0,     \* value of rx right before the unwrap call
    uctx,    \* unwrap::Context after HDF::unwrap: result, read cursor, sponge transcript
    size,    \* sizeof::Context.size
    cmds,    \* the skip commands issued on the sizeof context so far
    pks,     \* PublicKeyMap.pks: the entries of the hash map
    pks0,    \* pks right before the last store call
    call,    \* the last store call: operation, arguments, returned value
    inserted,\* the identity keys insert was called with so far
    pcf,     \* the PCF value at hand, NoPCF when a constructor failed
    pcall    \* the last PCF call: operation, arguments, result

hdfVars == <<pc, hdf, bres, wctx, buf, edits, rx, rx0, uctx>>
szVars == <<size, cmds>>
stVars == <<pks, pks0, call, inserted>>
pcfVars == <<pcf, pcall>>

vars == <<hdfVars, szVars, stVars, pcfVars>>

----------------------------------------------------------------------------
(* Bounds of the model.                                                    *)

\* Number of edits (byte overwrite or truncation) the transport may apply.
MaxEdits == 1

\* Values of the fields a caller supplies (in and out of the valid ranges).
ContentTypes == {3, 15, 16}
PayloadLengths == {10, 1023, 1024}
FrameCounts == {4194303, 4194304}
Links == {0, 1}
\* Values assigned to the public encoding, version and frame_type fields.
Encodings == {0, 7}
Versions == {1, 2}
FrameTypes == {4, 5}
\* Byte values and positions the transport may write into the buffer.
EditBytes == {28, 64}
EditPos == {2, 3, 5, 6, 16}
CutLens == {0, 1, 3, 7, 15}

\* Number of skip commands issued on one sizeof context.
MaxCmds == 3
\* Values of Size, lengths of Bytes and widths of NBytes that are skipped.
Sizes == {0, 1, 255, 256, 65536}
BytesLens == {0, 2, 260}
NBytesLens == {2, 3, 32}
\* Octets a Fallback value adds in its sizeof_skip.
FallbackSizes == {0, 5}

\* Number of identity keys and the largest seq_num of a sequencing Info.
NumKeys == 3
MaxSeq == 1

\* Frame numbers handed to the PCF constructors and octets of unwrapped buffers.
FrameNums == {0, 65536, 4194303, 4194304}
NumBytes0 == {63, 64}
NumBytes == {255}
Contents == {7, 9}

----------------------------------------------------------------------------
(* Fixed-width arithmetic.                                                 *)

RECURSIVE BitAnd(_, _)
BitAnd(a, b) ==
    IF a = 0 \/ b = 0 THEN 0
    ELSE (IF a % 2 = 1 /\ b % 2 = 1 THEN 1 ELSE 0) + 2 * BitAnd(a \div 2, b \div 2)

RECURSIVE BitOr(_, _)
BitOr(a, b) ==
    IF a = 0 THEN b
    ELSE IF b = 0 THEN a
    ELSE (IF a % 2 = 1 \/ b % 2 = 1 THEN 1 ELSE 0) + 2 * BitOr(a \div 2, b \div 2)

\* `x as u8`
AsU8(x) == x % 256

\* `x << n` on a u8: bits shifted out are dropped.
Shl8(x, n) == (x * (2 ^ n)) % 256

\* `x >> n`
Shr(x, n) == x \div (2 ^ n)

\* A u64 is kept as four 16-bit words, most significant first.
U64(w3, w2, w1, w0) == <<w3, w2, w1, w0>>
U64Zero == U64(0, 0, 0, 0)
\* `u32 as u64`, the u32 given as two 16-bit words.
U32AsU64(hi, lo) == U64(0, 0, hi, lo)

\* u64::to_be_bytes
U64ToBeBytes(s) ==
    << s[1] \div 256, s[1] % 256, s[2] \div 256, s[2] % 256,
       s[3] \div 256, s[3] % 256, s[4] \div 256, s[4] % 256 >>

\* u64::from_be_bytes
U64FromBeBytes(b) ==
    U64(b[1] * 256 + b[2], b[3] * 256 + b[4], b[5] * 256 + b[6], b[7] * 256 + b[8])

\* usize::to_be_bytes on a 64-bit target, for values below 2^31.
UsizeToBeBytes(n) ==
    << 0, 0, 0, 0, (n \div 16777216) % 256, (n \div 65536) % 256, (n \div 256) % 256, n % 256 >>

\* usize::from_be_bytes on a 64-bit target, the upper four bytes being zero.
UsizeFromBeBytes(x) ==
    ((x[5] * 256 + x[6]) * 256 + x[7]) * 256 + x[8]

SeqNums == { U64Zero, U64(65535, 65535, 65535, 65535) }
SeqNums32 == { <<1, 42>> }

----------------------------------------------------------------------------
(* Protocol constants (message/mod.rs).                                    *)

UTF8 == 0
STREAMS_1_VER == 1
HDF_ID == 4
INIT_PCF_ID == 5
INTER_PCF_ID == 12
FINAL_PCF_ID == 14

----------------------------------------------------------------------------
(* Results and errors (anyhow messages).                                   *)

Ok == "Ok"
NoCall == "None"
ErrContentType == "Content type out of range"
ErrPayloadLength == "Payload length out of range"
ErrFrameCount == "Payload frame count out of range"
ErrVersion == "Message version not supported"
ErrFrameType == "Message frame type not supported"
ErrReserved == "Bad reserved bits"
ErrEof == "Input stream exhausted"
ErrFrameNum == "Payload frame num out of range"

\* Option<T>
Some(x) == <<x>>
None == <<>>

----------------------------------------------------------------------------
(* HDF                                                                     *)

NoHDF == [none |-> TRUE]

HDF(encoding, version, content_type, payload_length, frame_type, payload_frame_count, link, seq_num) ==
    [ encoding |-> encoding, version |-> version, content_type |-> content_type,
      payload_length |-> payload_length, frame_type |-> frame_type,
      payload_frame_count |-> payload_frame_count, link |-> link, seq_num |-> seq_num ]

\* HDF::new
HDF_new(link) == HDF(UTF8, STREAMS_1_VER, 0, 0, HDF_ID, 0, link, U64Zero)

\* HDF::default, with the link the caller supplies
HDF_default(link) == HDF(UTF8, STREAMS_1_VER, 0, 0, HDF_ID, 0, link, U64Zero)

\* Result<Self> of the consuming builders: the HDF is gone on Err.
BOk(h) == [res |-> Ok, hdf |-> h]
BErr(e) == [res |-> e, hdf |-> NoHDF]

with_content_type(h, content_type) ==
    IF ~(content_type < 16) THEN BErr(ErrContentType)
    ELSE BOk([h EXCEPT !.content_type = content_type])

with_payload_length(h, payload_length) ==
    IF ~(payload_length < 1024) THEN BErr(ErrPayloadLength)
    ELSE BOk([h EXCEPT !.payload_length = payload_length])

with_payload_frame_count(h, payload_frame_count) ==
    IF ~(payload_frame_count < 4194304) THEN BErr(ErrFrameCount)
    ELSE BOk([h EXCEPT !.payload_frame_count = payload_frame_count])

with_seq_num(h, hi, lo) == [h EXCEPT !.seq_num = U32AsU64(hi, lo)]

new_with_fields(link, content_type, payload_length, seq_num) ==
    IF ~(content_type < 16) THEN BErr(ErrContentType)
    ELSE IF ~(payload_length < 1024) THEN BErr(ErrPayloadLength)
    ELSE BOk(HDF(UTF8, STREAMS_1_VER, content_type, payload_length, HDF_ID, 0, link, seq_num))

\* destruct_usize taking the bytes one place too high.
destruct_usize_m(x) == << BitAnd(x[5], 63), x[6], x[7] >>

\* destruct_usize (64-bit target)
destruct_usize(x) == << BitAnd(x[6], 63), x[7], x[8] >>

\* construct_usize (64-bit target)
construct_usize(v) == UsizeFromBeBytes(<< 0, 0, 0, 0, 0, v[1], v[2], v[3] >>)

----------------------------------------------------------------------------
(* Codec contexts: the stream is the sequence of octets, the sponge is the *)
(* transcript of what was absorbed.                                        *)

WrapCtx0 == [res |-> NoCall, stream |-> <<>>, sponge |-> <<>>]

\* wrap::Context: absorb(Uint8) writes the octet and absorbs it.
WrapAbsorbU8(c, u) ==
    [c EXCEPT !.stream = Append(@, u), !.sponge = Append(@, <<"abs", u>>)]
\* wrap::Context: skip(NBytes) writes the octets only.
WrapSkipNBytes(c, v) == [c EXCEPT !.stream = @ \o v]
\* wrap::Context: skip(Uint64) writes 8 big-endian octets.
WrapSkipU64(c, s) == [c EXCEPT !.stream = @ \o U64ToBeBytes(s)]
\* wrap::Context: absorb(External(x)) absorbs x and writes nothing.
WrapAbsorbExternal(c, tag, x) == [c EXCEPT !.sponge = Append(@, <<tag, x>>)]

\* HDF::wrap absorbing the link as an ordinary octet instead of externally.
HDF_wrap_m(h, ctx) ==
    LET content_type_and_payload_length ==
            << BitOr(Shl8(h.content_type, 4), BitAnd(AsU8(Shr(h.payload_length, 8)), 3)),
               AsU8(h.payload_length) >>
        payload_frame_count == destruct_usize(UsizeToBeBytes(h.payload_frame_count))
        c1 == WrapAbsorbU8(ctx, h.encoding)
        c2 == WrapAbsorbU8(c1, h.version)
        c3 == WrapSkipNBytes(c2, content_type_and_payload_length)
        c4 == WrapAbsorbExternal(c3, "ext", Shl8(h.content_type, 4))
        c5 == WrapAbsorbU8(c4, h.frame_type)
        c6 == WrapSkipNBytes(c5, payload_frame_count)
        c7 == WrapAbsorbU8(c6, h.link)
        c8 == WrapSkipU64(c7, h.seq_num)
    IN  [c8 EXCEPT !.res = Ok]

\* ContentWrap for HDF
HDF_wrap(h, ctx) ==
    LET content_type_and_payload_length ==
            << BitOr(Shl8(h.content_type, 4), BitAnd(AsU8(Shr(h.payload_length, 8)), 3)),
               AsU8(h.payload_length) >>
        payload_frame_count == destruct_usize(UsizeToBeBytes(h.payload_frame_count))
        c1 == WrapAbsorbU8(ctx, h.encoding)
        c2 == WrapAbsorbU8(c1, h.version)
        c3 == WrapSkipNBytes(c2, content_type_and_payload_length)
        c4 == WrapAbsorbExternal(c3, "ext", Shl8(h.content_type, 4))
        c5 == WrapAbsorbU8(c4, h.frame_type)
        c6 == WrapSkipNBytes(c5, payload_frame_count)
        c7 == WrapAbsorbExternal(c6, "link", h.link)
        c8 == WrapSkipU64(c7, h.seq_num)
    IN  [c8 EXCEPT !.res = Ok]

UnwrapCtx0 == [res |-> NoCall, pos |-> 0, sponge |-> <<>>]

\* io::IStream: n more octets can be read at the cursor.
CanRead(c, in, n) == c.pos + n <= Len(in)
\* The n octets at the cursor.
Take(c, in, n) == SubSeq(in, c.pos + 1, c.pos + n)
Advance(c, n) == [c EXCEPT !.pos = @ + n]
UnwrapAbsorbed(c, u) == [Advance(c, 1) EXCEPT !.sponge = Append(@, <<"abs", u>>)]
UnwrapExternal(c, tag, x) == [c EXCEPT !.sponge = Append(@, <<tag, x>>)]
Fail(c, e) == [c EXCEPT !.res = e]

\* The guards and reserved-bit checks of HDF::unwrap.
VersionGuard(self) == self.version = STREAMS_1_VER
\* The frame-type guard left out.
FrameTypeGuard_m(self) == TRUE
FrameTypeGuard(self) == self.frame_type = HDF_ID
ReservedCtPl(v) == BitAnd(v[1], 12)
\* The frame-count check masking the top bit only.
ReservedFrameCount_m(v) == BitAnd(v[1], 128)
ReservedFrameCount(v) == BitAnd(v[1], 192)

\* ContentUnwrap for HDF: the HDF and the context after the call.
HDF_unwrap(self, ctx, in) ==
    IF ~CanRead(ctx, in, 1) THEN [hdf |-> self, ctx |-> Fail(ctx, ErrEof)] ELSE
    LET s1 == [self EXCEPT !.encoding = in[ctx.pos + 1]]
        c1 == UnwrapAbsorbed(ctx, s1.encoding) IN
    IF ~CanRead(c1, in, 1) THEN [hdf |-> s1, ctx |-> Fail(c1, ErrEof)] ELSE
    LET s2 == [s1 EXCEPT !.version = in[c1.pos + 1]]
        c2 == UnwrapAbsorbed(c1, s2.version) IN
    IF ~VersionGuard(s2) THEN [hdf |-> s2, ctx |-> Fail(c2, ErrVersion)] ELSE
    IF ~CanRead(c2, in, 2) THEN [hdf |-> s2, ctx |-> Fail(c2, ErrEof)] ELSE
    LET v == Take(c2, in, 2)
        c3 == Advance(c2, 2) IN
    IF ~(0 = ReservedCtPl(v)) THEN [hdf |-> s2, ctx |-> Fail(c3, ErrReserved)] ELSE
    LET s3 == [s2 EXCEPT !.content_type = Shr(v[1], 4),
                         !.payload_length = BitOr(BitAnd(v[1], 3) * 256, v[2])]
        c4 == UnwrapExternal(c3, "ext", Shl8(s3.content_type, 4)) IN
    IF ~CanRead(c4, in, 1) THEN [hdf |-> s3, ctx |-> Fail(c4, ErrEof)] ELSE
    LET s4 == [s3 EXCEPT !.frame_type = in[c4.pos + 1]]
        c5 == UnwrapAbsorbed(c4, s4.frame_type) IN
    IF ~FrameTypeGuard(s4) THEN [hdf |-> s4, ctx |-> Fail(c5, ErrFrameType)] ELSE
    IF ~CanRead(c5, in, 3) THEN [hdf |-> s4, ctx |-> Fail(c5, ErrEof)] ELSE
    LET w == Take(c5, in, 3)
        c6 == Advance(c5, 3) IN
    IF ~(0 = ReservedFrameCount(w)) THEN [hdf |-> s4, ctx |-> Fail(c6, ErrReserved)] ELSE
    LET s5 == [s4 EXCEPT !.payload_frame_count = construct_usize(w)]
        c7 == UnwrapExternal(c6, "link", s5.link) IN
    IF ~CanRead(c7, in, 8) THEN [hdf |-> s5, ctx |-> Fail(c7, ErrEof)] ELSE
    LET s6 == [s5 EXCEPT !.seq_num = U64FromBeBytes(Take(c7, in, 8))]
        c8 == Advance(c7, 8) IN
    [hdf |-> s6, ctx |-> [c8 EXCEPT !.res = Ok]]

----------------------------------------------------------------------------
(* sizeof::Context skip commands (command/sizeof/skip.rs).                 *)

\* types::sizeof_sizet: one octet for the count plus the octets of n.
RECURSIVE size_bytes(_)
size_bytes(n) == IF n = 0 THEN 0 ELSE 1 + size_bytes(n \div 256)
sizeof_sizet(n) == size_bytes(n) + 1

\* A value of Bytes / NBytes with n octets.
Octets(n) == [i \in 1..n |-> 0]

\* Skip<&Uint8>
skip_Uint8(sz) == sz + 3
\* Skip<&Size>
skip_Size(sz, n) == sz + sizeof_sizet(n)
\* Skip<&Bytes>
skip_Bytes(sz, trytes) == sz + sizeof_sizet(Len(trytes)) + Len(trytes)
\* Skip<&NBytes>
skip_NBytes(sz, ntrytes) == sz + Len(ntrytes)
\* Skip<&Fallback<T>>: the size after T::sizeof_skip, which adds n octets.
skip_Fallback(sz, n) == sz + n

\* sizeof::Context: absorb(Uint8) counts one octet.
SizeofAbsorbU8(sz) == sz + 1
\* sizeof::Context: absorb(External(x)) counts nothing.
SizeofAbsorbExternal(sz) == sz
\* sizeof::Context: skip(Uint64) counts 8 octets.
SizeofSkipU64(sz) == sz + 8

\* One entry of the log of commands issued on the sizeof context.
Cmd(t, ref, n) == [t |-> t, ref |-> ref, n |-> n]

\* ContentSizeof for HDF: the size after the eight commands.
HDF_sizeof(h, sz) ==
    LET content_type_and_payload_length == Octets(2)
        payload_frame_count == Octets(3)
        s1 == SizeofAbsorbU8(sz)
        s2 == SizeofAbsorbU8(s1)
        s3 == skip_NBytes(s2, content_type_and_payload_length)
        s4 == SizeofAbsorbExternal(s3)
        s5 == SizeofAbsorbU8(s4)
        s6 == skip_NBytes(s5, payload_frame_count)
        s7 == SizeofAbsorbExternal(s6)
    IN  SizeofSkipU64(s7)

\* The commands HDF::sizeof issues, in order.
HDF_sizeof_cmds ==
    << Cmd("Absorb", FALSE, 1), Cmd("Absorb", FALSE, 1), Cmd("NBytes", TRUE, 2),
       Cmd("External", FALSE, 0), Cmd("Absorb", FALSE, 1), Cmd("NBytes", TRUE, 3),
       Cmd("External", FALSE, 0), Cmd("Uint64", FALSE, 8) >>

InitSizeof ==
    /\ size = 0
    /\ cmds = <<>>

----------------------------------------------------------------------------
(* PublicKeyMap (api/mod.rs).                                              *)

IKs == 1..NumKeys
Infos == { <<l, n>> : l \in Links, n \in 0..MaxSeq }

\* x25519::public_from_ed25519: a fixed function of the identity key.
public_from_ed25519(pk) == 100 + ((pk * 7) % 11)

\* HashMap::get and HashMap::insert on a map kept as its set of entries.
HashMap_get(m, k) ==
    IF \E e \in m : e.k = k THEN Some((CHOOSE e \in m : e.k = k).v) ELSE None
HashMap_insert(m, k, v) == { e \in m : e.k # k } \cup { [k |-> k, v |-> v] }

\* Option::map with the closures |(x,_i)| x and |(_x,i)| i
MapFst(o) == IF o = None THEN None ELSE Some(o[1][1])
MapSnd(o) == IF o = None THEN None ELSE Some(o[1][2])

\* PublicKeyMap::new
PublicKeyMap_new == {}
\* PublicKeyStore::get
PublicKeyMap_get(m, pk) == MapSnd(HashMap_get(m, pk))
\* PublicKeyStore::get_mut
PublicKeyMap_get_mut(m, pk) == MapSnd(HashMap_get(m, pk))
\* PublicKeyStore::get_ke_pk
PublicKeyMap_get_ke_pk(m, pk) == MapFst(HashMap_get(m, pk))
\* insert storing the identity key where its key-agreement key belongs.
PublicKeyMap_insert_m(m, pk, info) == HashMap_insert(m, pk, <<pk, info>>)
\* insert keeping an entry that is already there (entry().or_insert()).
PublicKeyMap_insert_keep(m, pk, info) ==
    IF HashMap_get(m, pk) # None THEN m
    ELSE HashMap_insert(m, pk, <<public_from_ed25519(pk), info>>)
\* PublicKeyStore::insert
PublicKeyMap_insert(m, pk, info) ==
    LET xpk == public_from_ed25519(pk)
    IN  HashMap_insert(m, pk, <<xpk, info>>)

InitStore ==
    /\ pks = PublicKeyMap_new
    /\ pks0 = PublicKeyMap_new
    /\ call = [op |-> NoCall, pk |-> 0, info |-> None, ret |-> None]
    /\ inserted = {}

----------------------------------------------------------------------------
(* PCF (message/pcf.rs). The content is one octet that is absorbed.        *)

NoPCF == [none |-> TRUE]
\* The content is () or one octet.
Unit == <<>>
Octet(c) == <<c>>

PCF(frame_type, payload_frame_num, content) ==
    [frame_type |-> frame_type, payload_frame_num |-> payload_frame_num, content |-> content]

new_init_frame == PCF(INIT_PCF_ID, <<0, 0, 0>>, Unit)
new_inter_frame == PCF(INTER_PCF_ID, <<0, 0, 0>>, Unit)
new_final_frame == PCF(FINAL_PCF_ID, <<0, 0, 0>>, Unit)
with_content(self, content) == PCF(self.frame_type, self.payload_frame_num, content)

\* payload_frame_num_from accepting the first value past the range.
payload_frame_num_from_m(n) ==
    IF ~(n <= 4194304) THEN [res |-> ErrFrameNum, v |-> <<>>]
    ELSE LET v == UsizeToBeBytes(n) IN [res |-> Ok, v |-> SubSeq(v, 6, 8)]

payload_frame_num_from(n) ==
    IF ~(n < 4194304) THEN [res |-> ErrFrameNum, v |-> <<>>]
    ELSE LET v == UsizeToBeBytes(n) IN [res |-> Ok, v |-> SubSeq(v, 6, 8)]

\* payload_frame_num_to (64-bit target)
payload_frame_num_to(v) == UsizeFromBeBytes(<<0, 0, 0, 0, 0>> \o v)

payload_frame_num_check(v) == IF ~(v[1] < 64) THEN ErrFrameNum ELSE Ok

\* PCF::new
PCF_new(frame_type, payload_frame_num, content) ==
    LET r == payload_frame_num_from(payload_frame_num)
    IN  IF r.res # Ok THEN [res |-> r.res, pcf |-> NoPCF]
        ELSE [res |-> Ok, pcf |-> PCF(frame_type, r.v, content)]

with_payload_frame_num(self, payload_frame_num) ==
    LET r == payload_frame_num_from(payload_frame_num)
    IN  IF r.res # Ok THEN [res |-> r.res, pcf |-> NoPCF]
        ELSE [res |-> Ok, pcf |-> [self EXCEPT !.payload_frame_num = r.v]]

default_with_content(content) == PCF(FINAL_PCF_ID, <<0, 0, 1>>, content)

get_payload_frame_num(self) == payload_frame_num_to(self.payload_frame_num)

\* ContentUnwrap of the content: () reads nothing, an octet is absorbed.
Content_unwrap(content, ctx, in) ==
    IF content = Unit THEN [content |-> content, ctx |-> ctx]
    ELSE IF ~CanRead(ctx, in, 1) THEN [content |-> content, ctx |-> Fail(ctx, ErrEof)]
    ELSE [content |-> Octet(in[ctx.pos + 1]), ctx |-> UnwrapAbsorbed(ctx, in[ctx.pos + 1])]

\* ContentUnwrap for PCF: the PCF and the context after the call.
PCF_unwrap(self, ctx, in) ==
    IF ~CanRead(ctx, in, 1) THEN [pcf |-> self, ctx |-> Fail(ctx, ErrEof)] ELSE
    LET s1 == [self EXCEPT !.frame_type = in[ctx.pos + 1]]
        c1 == UnwrapAbsorbed(ctx, s1.frame_type) IN
    IF ~CanRead(c1, in, 3) THEN [pcf |-> s1, ctx |-> Fail(c1, ErrEof)] ELSE
    LET s2 == [s1 EXCEPT !.payload_frame_num = Take(c1, in, 3)]
        c2 == Advance(c1, 3)
        chk == payload_frame_num_check(s2.payload_frame_num) IN
    IF chk # Ok THEN [pcf |-> s2, ctx |-> Fail(c2, chk)] ELSE
    LET r == Content_unwrap(s2.content, c2, in) IN
    IF r.ctx.res # NoCall THEN [pcf |-> [s2 EXCEPT !.content = r.content], ctx |-> r.ctx]
    ELSE [pcf |-> [s2 EXCEPT !.content = r.content], ctx |-> [r.ctx EXCEPT !.res = Ok]]

\* ContentWrap of the content: () writes nothing, an octet is absorbed.
Content_wrap(content, ctx) ==
    IF content = Unit THEN ctx ELSE WrapAbsorbU8(ctx, content[1])

\* ContentSizeof of the content: () counts nothing, an octet counts one.
Content_sizeof(content, sz) ==
    IF content = Unit THEN sz ELSE SizeofAbsorbU8(sz)

\* ContentWrap for PCF
PCF_wrap(self, ctx) ==
    LET c1 == WrapAbsorbU8(ctx, self.frame_type)
        c2 == WrapSkipNBytes(c1, self.payload_frame_num)
        c3 == Content_wrap(self.content, c2)
    IN  [c3 EXCEPT !.res = Ok]

\* ContentSizeof for PCF
PCF_sizeof(self, sz) ==
    LET s1 == SizeofAbsorbU8(sz)
        s2 == skip_NBytes(s1, self.payload_frame_num)
    IN  Content_sizeof(self.content, s2)

\* The commands PCF::sizeof issues, in order.
PCF_sizeof_cmds(self) ==
    << Cmd("Absorb", TRUE, 1), Cmd("NBytes", TRUE, Len(self.payload_frame_num)) >>
    \o (IF self.content = Unit THEN <<>> ELSE << Cmd("Absorb", TRUE, 1) >>)

InitPCF ==
    /\ pcf = NoPCF
    /\ pcall = [op |-> NoCall, res |-> NoCall, n |-> 0, in |-> <<>>]

----------------------------------------------------------------------------
(* The HDF pipeline.                                                       *)

InitHDF ==
    /\ pc = "build"
    /\ hdf = NoHDF
    /\ bres = NoCall
    /\ wctx = WrapCtx0
    /\ buf = <<>>
    /\ edits = 0
    /\ rx = NoHDF
    /\ rx0 = NoHDF
    /\ uctx = UnwrapCtx0

Init == InitHDF /\ InitSizeof /\ InitStore /\ InitPCF

Built(r) ==
    /\ hdf' = r.hdf
    /\ bres' = r.res
    /\ UNCHANGED <<pc, wctx, buf, edits, rx, rx0, uctx, szVars, stVars, pcfVars>>

New ==
    /\ pc = "build"
    /\ \E link \in Links : Built(BOk(HDF_new(link)))

NewWithFields ==
    /\ pc = "build"
    /\ \E link \in Links, ct \in ContentTypes, pl \in PayloadLengths, s \in SeqNums :
          Built(new_with_fields(link, ct, pl, s))

WithContentType ==
    /\ pc = "build" /\ hdf # NoHDF
    /\ \E ct \in ContentTypes : Built(with_content_type(hdf, ct))

WithPayloadLength ==
    /\ pc = "build" /\ hdf # NoHDF
    /\ \E pl \in PayloadLengths : Built(with_payload_length(hdf, pl))

WithPayloadFrameCount ==
    /\ pc = "build" /\ hdf # NoHDF
    /\ \E pfc \in FrameCounts : Built(with_payload_frame_count(hdf, pfc))

WithSeqNum ==
    /\ pc = "build" /\ hdf # NoHDF
    /\ \E s \in SeqNums32 : Built(BOk(with_seq_num(hdf, s[1], s[2])))

\* Assignment to one of the eight public fields of the struct.
SetField ==
    /\ pc = "build" /\ hdf # NoHDF
    /\ \/ \E e \in Encodings : hdf' = [hdf EXCEPT !.encoding = e]
       \/ \E v \in Versions : hdf' = [hdf EXCEPT !.version = v]
       \/ \E ct \in ContentTypes : hdf' = [hdf EXCEPT !.content_type = ct]
       \/ \E pl \in PayloadLengths : hdf' = [hdf EXCEPT !.payload_length = pl]
       \/ \E ft \in FrameTypes : hdf' = [hdf EXCEPT !.frame_type = ft]
       \/ \E pfc \in FrameCounts : hdf' = [hdf EXCEPT !.payload_frame_count = pfc]
       \/ \E link \in Links : hdf' = [hdf EXCEPT !.link = link]
       \/ \E sn \in SeqNums : hdf' = [hdf EXCEPT !.seq_num = sn]
    /\ UNCHANGED <<pc, bres, wctx, buf, edits, rx, rx0, uctx, szVars, stVars, pcfVars>>

\* The sender sizes its HDF on the sizeof context.
HdfSizeof ==
    /\ pc = "build" /\ hdf # NoHDF
    /\ Len(cmds) < MaxCmds
    /\ size' = HDF_sizeof(hdf, size)
    /\ cmds' = cmds \o HDF_sizeof_cmds
    /\ UNCHANGED <<hdfVars, stVars, pcfVars>>

\* The sender wraps its HDF into a fresh context; the stream goes to the transport.
Wrap ==
    /\ pc = "build" /\ hdf # NoHDF
    /\ wctx' = HDF_wrap(hdf, WrapCtx0)
    /\ buf' = wctx'.stream
    /\ pc' = "wire"
    /\ UNCHANGED <<hdf, bres, edits, rx, rx0, uctx, szVars, stVars, pcfVars>>

\* The transport overwrites one octet.
Corrupt ==
    /\ pc = "wire" /\ edits < MaxEdits
    /\ \E i \in EditPos, b \in EditBytes :
          /\ i <= Len(buf)
          /\ buf' = [buf EXCEPT ![i] = b]
    /\ edits' = edits + 1
    /\ UNCHANGED <<pc, hdf, bres, wctx, rx, rx0, uctx, szVars, stVars, pcfVars>>

\* The transport delivers only a prefix.
Truncate ==
    /\ pc = "wire" /\ edits < MaxEdits
    /\ \E n \in CutLens :
          /\ n < Len(buf)
          /\ buf' = SubSeq(buf, 1, n)
    /\ edits' = edits + 1
    /\ UNCHANGED <<pc, hdf, bres, wctx, rx, rx0, uctx, szVars, stVars, pcfVars>>

\* The receiver unwraps into a default HDF carrying the link it got from the transport.
Unwrap ==
    /\ pc = "wire"
    /\ LET target == HDF_default(hdf.link)
           r == HDF_unwrap(target, UnwrapCtx0, buf)
       IN  /\ rx0' = target
           /\ rx' = r.hdf
           /\ uctx' = r.ctx
    /\ pc' = "done"
    /\ UNCHANGED <<hdf, bres, wctx, buf, edits, szVars, stVars, pcfVars>>

NextHDF ==
    \/ New
    \/ NewWithFields
    \/ WithContentType
    \/ WithPayloadLength
    \/ WithPayloadFrameCount
    \/ WithSeqNum
    \/ SetField
    \/ HdfSizeof
    \/ Wrap
    \/ Corrupt
    \/ Truncate
    \/ Unwrap

SpecHDF == Init /\ [][NextHDF]_vars

----------------------------------------------------------------------------
(* Properties of the HDF pipeline.                                         *)

\* The fields of h are inside the ranges of the wire layout.
ValidFields(h) ==
    /\ h.content_type < 16
    /\ h.payload_length < 1024
    /\ h.payload_frame_count < 4194304

Intact == pc = "done" /\ buf = wctx.stream

\* Every field read back equals the one that was wrapped.
SameFields ==
    /\ rx.encoding = hdf.encoding
    /\ rx.version = hdf.version
    /\ rx.content_type = hdf.content_type
    /\ rx.payload_length = hdf.payload_length
    /\ rx.frame_type = hdf.frame_type
    /\ rx.payload_frame_count = hdf.payload_frame_count
    /\ rx.seq_num = hdf.seq_num

\* C1 amended: an HDF with valid fields whose version is STREAMS_1_VER and whose
\* frame_type is HDF_ID, wrapped and unwrapped (same link, bytes untouched),
\* unwraps successfully and every field read back, the encoding whatever it
\* is included, equals the one that was wrapped; with another version the
\* unwrap fails with the version error, with another frame_type with the
\* frame-type error.
C1_RoundTripSupported ==
    (Intact /\ ValidFields(hdf)) =>
        IF hdf.version # STREAMS_1_VER THEN uctx.res = ErrVersion
        ELSE IF hdf.frame_type # HDF_ID THEN uctx.res = ErrFrameType
        ELSE uctx.res = Ok /\ SameFields

\* C1 as stated: an HDF with valid fields that is wrapped and unwrapped (same
\* link, bytes untouched) unwraps successfully and every field read back equals
\* the one that was wrapped.
C1_RoundTrip ==
    (Intact /\ ValidFields(hdf)) =>
        /\ uctx.res = Ok
        /\ rx.encoding = hdf.encoding
        /\ rx.version = hdf.version
        /\ rx.content_type = hdf.content_type
        /\ rx.payload_length = hdf.payload_length
        /\ rx.frame_type = hdf.frame_type
        /\ rx.payload_frame_count = hdf.payload_frame_count
        /\ rx.seq_num = hdf.seq_num

C1_Witness ==
    /\ Intact /\ uctx.res = Ok
    /\ hdf.encoding = 7 /\ rx.encoding = 7
    /\ hdf.content_type = 15 /\ hdf.payload_length = 1023
    /\ hdf.payload_frame_count = 4194303
    /\ hdf.seq_num = U64(65535, 65535, 65535, 65535)
    /\ rx.payload_frame_count = 4194303

\* The sixteen octets of section 6 for the given field values.
WireLayout(ct, pl, pfc, s) ==
    << UTF8, STREAMS_1_VER,
       ct * 16 + ((pl \div 256) % 4), pl % 256,
       HDF_ID,
       pfc \div 65536, (pfc \div 256) % 256, pfc % 256 >> \o U64ToBeBytes(s)

\* The sixteen octets of section 6 with the first, second and fifth octet taken
\* from the fields of h.
WireLayoutOf(h) ==
    << h.encoding, h.version,
       h.content_type * 16 + ((h.payload_length \div 256) % 4), h.payload_length % 256,
       h.frame_type,
       h.payload_frame_count \div 65536, (h.payload_frame_count \div 256) % 256,
       h.payload_frame_count % 256 >> \o U64ToBeBytes(h.seq_num)

\* C2 amended: wrapping an HDF with valid fields emits exactly 16 octets that
\* are a function of its fields other than the link: octets 0, 1 and 4 are the
\* fields encoding, version and frame_type (UTF8, STREAMS_1_VER and HDF_ID
\* when they are as the constructors set them), the others are as in the wire
\* layout; the link appears only as an external absorb in the sponge.
C2_WireLayoutOfFields ==
    (pc # "build" /\ ValidFields(hdf)) =>
        /\ wctx.res = Ok
        /\ Len(wctx.stream) = 16
        /\ wctx.stream = WireLayoutOf(hdf)
        /\ wctx.stream[6] < 64
        /\ (hdf.encoding = UTF8 /\ hdf.version = STREAMS_1_VER /\ hdf.frame_type = HDF_ID) =>
              wctx.stream = WireLayout(hdf.content_type, hdf.payload_length,
                                       hdf.payload_frame_count, hdf.seq_num)
        /\ \E i \in 1..Len(wctx.sponge) : wctx.sponge[i] = <<"link", hdf.link>>
        /\ \A i \in 1..Len(wctx.sponge) :
              wctx.sponge[i][1] = "abs" =>
                  wctx.sponge[i][2] \in {hdf.encoding, hdf.version, hdf.frame_type}

\* C2 as stated: wrapping an HDF with valid fields emits exactly the 16 octets of the wire
\* layout, computed from content_type, payload_length, payload_frame_count and
\* seq_num alone; the link appears only as an external absorb in the sponge.
C2_WireLayout ==
    (pc # "build" /\ ValidFields(hdf)) =>
        /\ wctx.res = Ok
        /\ Len(wctx.stream) = 16
        /\ wctx.stream = WireLayout(hdf.content_type, hdf.payload_length,
                                    hdf.payload_frame_count, hdf.seq_num)
        /\ wctx.stream[6] < 64
        /\ \E i \in 1..Len(wctx.sponge) : wctx.sponge[i] = <<"link", hdf.link>>
        /\ \A i \in 1..Len(wctx.sponge) :
              wctx.sponge[i][1] = "abs" => wctx.sponge[i][2] \in {UTF8, STREAMS_1_VER, HDF_ID}

C2_Witness ==
    /\ pc = "wire" /\ edits = 0
    /\ hdf.content_type = 3 /\ hdf.payload_length = 10 /\ hdf.link = 1
    /\ hdf.payload_frame_count = 4194303
    /\ hdf.seq_num = U64(0, 0, 1, 42)
    /\ hdf.encoding = 7
    /\ wctx.stream = << 7, 1, 48, 10, 4, 63, 255, 255, 0, 0, 0, 0, 0, 1, 0, 42 >>

RangeErrors == {ErrContentType, ErrPayloadLength, ErrFrameCount}

\* C3: wrapping an HDF that carries an out-of-range content_type, payload_length
\* or payload_frame_count fails with an out-of-range error and writes no bytes.
C3_WrapRejectsOutOfRange ==
    (pc # "build" /\ ~ValidFields(hdf)) =>
        /\ wctx.res \in RangeErrors
        /\ wctx.stream = <<>>

\* C4: when unwrap returns an error, every field of the HDF unwrapped into has
\* the value it had before the call.
C4_FailedUnwrapNoEffect ==
    (pc = "done" /\ uctx.res # Ok) =>
        /\ rx.encoding = rx0.encoding
        /\ rx.version = rx0.version
        /\ rx.content_type = rx0.content_type
        /\ rx.payload_length = rx0.payload_length
        /\ rx.frame_type = rx0.frame_type
        /\ rx.payload_frame_count = rx0.payload_frame_count
        /\ rx.seq_num = rx0.seq_num

\* A reserved bit is set in the ct/pl octet, resp. in the first frame-count octet.
BadCtPlBits(b) == (b[3] \div 4) % 4 # 0
BadFrameCountBits(b) == b[6] \div 64 # 0

Delivered16 == pc = "done" /\ Len(buf) = 16

\* C5 as stated: a 16-byte header with a reserved bit set always fails with the
\* malformed-header error, whatever the other bytes are.
C5_ReservedAlwaysMalformed ==
    (Delivered16 /\ (BadCtPlBits(buf) \/ BadFrameCountBits(buf))) =>
        uctx.res = ErrReserved

\* C5 amended: a 16-byte header with a reserved bit set always fails; the error
\* is the malformed-header one unless a check earlier in wire order fails first
\* (the version guard; for a violation in the frame-count octet alone also the
\* frame-type guard), in which case it is that check's error. A header with
\* both reserved regions zero is never rejected for reserved bits.
C5_ReservedRejected ==
    /\ (Delivered16 /\ (BadCtPlBits(buf) \/ BadFrameCountBits(buf))) =>
          uctx.res = IF buf[2] # STREAMS_1_VER THEN ErrVersion
                     ELSE IF BadCtPlBits(buf) THEN ErrReserved
                     ELSE IF buf[5] # HDF_ID THEN ErrFrameType
                     ELSE ErrReserved
    /\ (Delivered16 /\ ~BadCtPlBits(buf) /\ ~BadFrameCountBits(buf)) =>
          uctx.res # ErrReserved

C5_Witness ==
    /\ Delivered16
    /\ buf[2] = STREAMS_1_VER /\ buf[5] = HDF_ID
    /\ ~BadCtPlBits(buf) /\ buf[6] = 64
    /\ uctx.res = ErrReserved

\* C6: a wrong version byte fails unwrap with the version error before the ct/pl
\* bytes are read; a wrong frame_type byte (version and ct/pl bytes passing)
\* fails with the frame-type error before the frame-count bytes are read; so
\* the earliest violated check in wire order is the one reported.
C6_GuardsInWireOrder ==
    /\ (pc = "done" /\ Len(buf) >= 2 /\ buf[2] # STREAMS_1_VER) =>
          /\ uctx.res = ErrVersion
          /\ uctx.pos = 2
          /\ rx.content_type = rx0.content_type
          /\ rx.payload_length = rx0.payload_length
    /\ (pc = "done" /\ Len(buf) >= 5 /\ buf[2] = STREAMS_1_VER
          /\ ~BadCtPlBits(buf) /\ buf[5] # HDF_ID) =>
          /\ uctx.res = ErrFrameType
          /\ uctx.pos = 5
          /\ rx.payload_frame_count = rx0.payload_frame_count

C6_Witness ==
    /\ Delivered16
    /\ buf[2] = STREAMS_1_VER /\ buf[5] # HDF_ID /\ BadFrameCountBits(buf)
    /\ uctx.res = ErrFrameType

----------------------------------------------------------------------------
(* Skip commands on a sizeof context.                                      *)

Skipped(sz, t, byRef, n) ==
    /\ size' = sz
    /\ cmds' = Append(cmds, [t |-> t, ref |-> byRef, n |-> n])
    /\ UNCHANGED <<hdfVars, stVars, pcfVars>>

SkipUint8Ref ==
    /\ Len(cmds) < MaxCmds
    /\ Skipped(skip_Uint8(size), "Uint8", TRUE, 0)

\* Skip<Uint8> and the other by-value impls call the by-reference one.
SkipUint8 ==
    /\ Len(cmds) < MaxCmds
    /\ Skipped(skip_Uint8(size), "Uint8", FALSE, 0)

SkipSizeRef ==
    /\ Len(cmds) < MaxCmds
    /\ \E n \in Sizes : Skipped(skip_Size(size, n), "Size", TRUE, n)

SkipSize ==
    /\ Len(cmds) < MaxCmds
    /\ \E n \in Sizes : Skipped(skip_Size(size, n), "Size", FALSE, n)

SkipBytesRef ==
    /\ Len(cmds) < MaxCmds
    /\ \E n \in BytesLens : Skipped(skip_Bytes(size, Octets(n)), "Bytes", TRUE, n)

SkipBytes ==
    /\ Len(cmds) < MaxCmds
    /\ \E n \in BytesLens : Skipped(skip_Bytes(size, Octets(n)), "Bytes", FALSE, n)

SkipNBytesRef ==
    /\ Len(cmds) < MaxCmds
    /\ \E n \in NBytesLens : Skipped(skip_NBytes(size, Octets(n)), "NBytes", TRUE, n)

SkipNBytes ==
    /\ Len(cmds) < MaxCmds
    /\ \E n \in NBytesLens : Skipped(skip_NBytes(size, Octets(n)), "NBytes", FALSE, n)

\* Skip<&Fallback<T>> for a T whose sizeof_skip adds n octets.
SkipFallback ==
    /\ Len(cmds) < MaxCmds
    /\ \E n \in FallbackSizes : Skipped(skip_Fallback(size, n), "Fallback", TRUE, n)

NextSizeof ==
    \/ SkipUint8Ref
    \/ SkipUint8
    \/ SkipSizeRef
    \/ SkipSize
    \/ SkipBytesRef
    \/ SkipBytes
    \/ SkipNBytesRef
    \/ SkipNBytes
    \/ SkipFallback

SpecSizeof == Init /\ [][NextSizeof]_vars

\* The octets section 4.2 assigns to one skipped value.
OctetsOf(c) ==
    CASE c.t = "Uint8" -> 1
      [] c.t = "Size" -> sizeof_sizet(c.n)
      [] c.t = "Bytes" -> sizeof_sizet(c.n) + c.n
      [] c.t = "NBytes" -> c.n
      [] c.t = "Fallback" -> c.n
      [] c.t = "Absorb" -> 1
      [] c.t = "External" -> 0
      [] c.t = "Uint64" -> 8

RECURSIVE SumOctets(_)
SumOctets(cs) == IF cs = <<>> THEN 0 ELSE OctetsOf(Head(cs)) + SumOctets(Tail(cs))

\* C7: after any sequence of sizeof skip commands the running size is the sum of
\* 1 per Uint8, sizeof_sizet(n) per Size n, sizeof_sizet(n)+n per Bytes of
\* length n and N per NBytes<N>.
C7_SizeIsSumOfOctets == size = SumOctets(cmds)

----------------------------------------------------------------------------
(* Calls on a PublicKeyMap.                                                *)

Called(op, pk, info, ret) ==
    /\ call' = [op |-> op, pk |-> pk, info |-> info, ret |-> ret]
    /\ pks0' = pks
    /\ UNCHANGED <<hdfVars, szVars, pcfVars>>

Insert ==
    \E pk \in IKs, info \in Infos :
        /\ pks' = PublicKeyMap_insert(pks, pk, info)
        /\ inserted' = inserted \cup {pk}
        /\ Called("insert", pk, Some(info), None)

Get ==
    \E pk \in IKs :
        /\ Called("get", pk, None, PublicKeyMap_get(pks, pk))
        /\ UNCHANGED <<pks, inserted>>

GetMut ==
    \E pk \in IKs :
        /\ Called("get_mut", pk, None, PublicKeyMap_get_mut(pks, pk))
        /\ UNCHANGED <<pks, inserted>>

GetKePk ==
    \E pk \in IKs :
        /\ Called("get_ke_pk", pk, None, PublicKeyMap_get_ke_pk(pks, pk))
        /\ UNCHANGED <<pks, inserted>>

NextStore ==
    \/ Insert
    \/ Get
    \/ GetMut
    \/ GetKePk

SpecStore == Init /\ [][NextStore]_vars

\* C8: every identity key that was inserted has the key-agreement key derived
\* from it stored (get_ke_pk returns it); a key never inserted is unknown to
\* get_ke_pk, get and get_mut; the value a lookup returned agrees with this.
C8_KeyAgreementInvariant ==
    /\ \A ik \in IKs :
          IF ik \in inserted
          THEN PublicKeyMap_get_ke_pk(pks, ik) = Some(public_from_ed25519(ik))
          ELSE /\ PublicKeyMap_get_ke_pk(pks, ik) = None
               /\ PublicKeyMap_get(pks, ik) = None
               /\ PublicKeyMap_get_mut(pks, ik) = None
    /\ call.op = "get_ke_pk" =>
          call.ret = IF call.pk \in inserted THEN Some(public_from_ed25519(call.pk)) ELSE None
    /\ (call.op \in {"get", "get_mut"} /\ call.pk \notin inserted) => call.ret = None

C8_Witness ==
    /\ call.op = "get_ke_pk"
    /\ call.pk \in inserted
    /\ call.ret = Some(public_from_ed25519(call.pk))
    /\ inserted # IKs

Entries(m, k) == { e \in m : e.k = k }

\* C9: an insert leaves exactly one entry per identity key; get of the inserted
\* key returns the Info just inserted; if the key was present its
\* key-agreement key is the one stored before; the entries of all other keys
\* are the ones stored before.
C9_InsertOverwritesInfoOnly ==
    /\ \A ik \in IKs : Cardinality(Entries(pks, ik)) = IF ik \in inserted THEN 1 ELSE 0
    /\ call.op = "insert" =>
          /\ PublicKeyMap_get(pks, call.pk) = call.info
          /\ PublicKeyMap_get_ke_pk(pks0, call.pk) # None =>
                PublicKeyMap_get_ke_pk(pks, call.pk) = PublicKeyMap_get_ke_pk(pks0, call.pk)
          /\ \A ik \in IKs \ {call.pk} : Entries(pks, ik) = Entries(pks0, ik)

C9_Witness ==
    /\ call.op = "insert"
    /\ PublicKeyMap_get(pks0, call.pk) # None
    /\ PublicKeyMap_get(pks0, call.pk) # call.info
    /\ \E ik \in IKs \ {call.pk} : Entries(pks, ik) # {}

----------------------------------------------------------------------------
(* Calls on a PCF.                                                         *)

PcfBufs ==
    { SubSeq(<<ft, b0, b1, b2, c>>, 1, n) :
        ft \in {INIT_PCF_ID, 255},
        b0 \in NumBytes0, b1 \in NumBytes, b2 \in NumBytes, c \in Contents, n \in {0, 2, 4, 5} }

PcfCalled(op, res, n, in) ==
    /\ pcall' = [op |-> op, res |-> res, n |-> n, in |-> in]
    /\ UNCHANGED <<hdfVars, szVars, stVars>>

NewInitFrame == pcf' = new_init_frame /\ PcfCalled("new_init_frame", Ok, 0, <<>>)
NewInterFrame == pcf' = new_inter_frame /\ PcfCalled("new_inter_frame", Ok, 0, <<>>)
NewFinalFrame == pcf' = new_final_frame /\ PcfCalled("new_final_frame", Ok, 0, <<>>)

WithContent ==
    /\ pcf # NoPCF /\ pcf.content = Unit
    /\ \E c \in Contents : pcf' = with_content(pcf, Octet(c))
    /\ PcfCalled("with_content", Ok, 0, <<>>)

PcfNew ==
    \E ft \in {INIT_PCF_ID, INTER_PCF_ID, FINAL_PCF_ID}, n \in FrameNums, c \in Contents :
        LET r == PCF_new(ft, n, Octet(c))
        IN  pcf' = r.pcf /\ PcfCalled("new", r.res, n, <<>>)

WithPayloadFrameNum ==
    /\ pcf # NoPCF
    /\ \E n \in FrameNums :
          LET r == with_payload_frame_num(pcf, n)
          IN  pcf' = r.pcf /\ PcfCalled("with_payload_frame_num", r.res, n, <<>>)

DefaultWithContent ==
    \E c \in Contents :
        pcf' = default_with_content(Octet(c)) /\ PcfCalled("default_with_content", Ok, 0, <<>>)

PcfUnwrap ==
    /\ pcf # NoPCF
    /\ \E in \in PcfBufs :
          LET r == PCF_unwrap(pcf, UnwrapCtx0, in)
          IN  pcf' = r.pcf /\ PcfCalled("unwrap", r.ctx.res, 0, in)

\* The PCF is wrapped into a fresh context.
PcfWrap ==
    /\ pcf # NoPCF
    /\ wctx' = PCF_wrap(pcf, WrapCtx0)
    /\ pcall' = [op |-> "wrap", res |-> wctx'.res, n |-> 0, in |-> <<>>]
    /\ UNCHANGED <<pc, hdf, bres, buf, edits, rx, rx0, uctx, pcf, szVars, stVars>>

\* The PCF is sized on the sizeof context.
PcfSizeof ==
    /\ pcf # NoPCF
    /\ Len(cmds) < MaxCmds
    /\ size' = PCF_sizeof(pcf, size)
    /\ cmds' = cmds \o PCF_sizeof_cmds(pcf)
    /\ pcall' = [op |-> "sizeof", res |-> Ok, n |-> 0, in |-> <<>>]
    /\ UNCHANGED <<pcf, hdfVars, stVars>>

NextPCF ==
    \/ NewInitFrame
    \/ NewInterFrame
    \/ NewFinalFrame
    \/ WithContent
    \/ PcfNew
    \/ WithPayloadFrameNum
    \/ DefaultWithContent
    \/ PcfUnwrap
    \/ PcfWrap
    \/ PcfSizeof

SpecPCF == Init /\ [][NextPCF]_vars

\* C10: a PCF from new_init_frame/new_inter_frame/new_final_frame has frame
\* number 0, one from default_with_content is FINAL with frame number 1; PCF::new
\* and with_payload_frame_num fail for n >= 0x400000 and otherwise yield a PCF
\* whose get_payload_frame_num() is n; unwrap fails when the first frame-number
\* octet is >= 0x40; so every PCF these calls return successfully has a frame
\* number below 0x400000 (first wire octet below 0x40).
C10_FrameNumRange ==
    /\ (pcall.op \in {"new_init_frame", "new_inter_frame", "new_final_frame",
                      "default_with_content", "new", "with_payload_frame_num", "unwrap"}
          /\ pcall.res = Ok) =>
          /\ get_payload_frame_num(pcf) < 4194304
          /\ pcf.payload_frame_num[1] < 64
    /\ pcall.op \in {"new_init_frame", "new_inter_frame", "new_final_frame"} =>
          get_payload_frame_num(pcf) = 0
    /\ pcall.op = "default_with_content" =>
          pcf.frame_type = FINAL_PCF_ID /\ get_payload_frame_num(pcf) = 1
    /\ pcall.op \in {"new", "with_payload_frame_num"} =>
          IF pcall.n >= 4194304 THEN pcall.res # Ok
          ELSE pcall.res = Ok /\ get_payload_frame_num(pcf) = pcall.n
    /\ (pcall.op = "unwrap" /\ Len(pcall.in) >= 4 /\ pcall.in[2] >= 64) => pcall.res # Ok

C10_Witness ==
    /\ pcall.op = "unwrap" /\ pcall.res = Ok
    /\ pcf.payload_frame_num = <<63, 255, 255>>
    /\ get_payload_frame_num(pcf) = 4194303

====
